---- MODULE Spec2Model ----
(***************************************************************************)
(* Model of the SecureChat room relay (server.js: `groups`, class Group    *)
(* and the wss.on('connection') handlers).                                  *)
(*                                                                         *)
(* A connection is a `ws` object of the WebSocket server.  Its closure     *)
(* holds `userGroup` (a reference to a Group or null) and `userId`.        *)
(* `groups` is the Map from room id to Group; a Group is its member Set.   *)
(* Because a key of `groups` is never overwritten (uuidv4 is fresh and     *)
(* join_group reuses the registered object) a Group reference is modelled  *)
(* by the key under which the Group is registered.                         *)
(*                                                                         *)
(* `out` holds, for every connection, the payloads handed to ws.send       *)
(* during the last handler run; `last` records which handler ran, for      *)
(* whom, on what input and with which `userGroup` before it ran.           *)
(***************************************************************************)
EXTENDS Integers, Sequences, FiniteSets, TLC

VARIABLES groups, userGroup, userId, readyState, issued, out, last, process

(* client side, symmetric channel (CryptoManager and the VoiceManager      *)
(* signaling encryption): the two keys, the number of nonces drawn, the    *)
(* last two encrypt calls, the last decrypt call and the last chat content *)
(* handed to the relay transport.                                          *)
VARIABLES sharedKey, encryptionKey, ivCount, enc, prevEnc, dec, sent

(* client side, Session Negotiator (VoiceManager): its fields, the peer    *)
(* connections it created, the media tracks and interval timers that are   *)
(* live, the suspended startCall and handleOffer flows, the pending        *)
(* handleCallError timeouts, the signaling payloads handed to the relay    *)
(* socket and the last Negotiator event.                                   *)
VARIABLES localStream, remoteStream, peerConnection, dataChannel,
          isCallActive, callTimer, pcs, liveTracks, liveTimers, made,
          sc, ho, timeouts, emitted, nlast

(* the transport between clients and relay: per connection the messages   *)
(* a client has written that the relay has not handled yet, in the order   *)
(* written (a WebSocket is an ordered stream), the number of messages the  *)
(* client has written, and the relayed frames in the order they were       *)
(* written to the connection's socket.                                     *)
VARIABLES wire, sentCount, delivered

rvars == <<groups, userGroup, userId, readyState, issued, out, last, process>>

cvars == <<sharedKey, encryptionKey, ivCount, enc, prevEnc, dec, sent>>

nvars == <<localStream, remoteStream, peerConnection, dataChannel,
           isCallActive, callTimer, pcs, liveTracks, liveTimers, made,
           sc, ho, timeouts, emitted, nlast>>

ovars == <<wire, sentCount, delivered>>

(* SecureChatApp of one client: its WebSocket (the relay's connection),   *)
(* its room, the frames the relay has sent to it that it has not handled   *)
(* yet, and the message elements on its screen                             *)
VARIABLES wss, currentGroupId, inbox, messagesContainer

avars == <<wss, currentGroupId, inbox, messagesContainer>>

vars == <<rvars, cvars, nvars, ovars, avars>>

(* ---------------------------------------------------------------- bounds *)
NConn == 2
MaxUuid == 3
MaxClock == 1
MaxIv == 2
MaxFlows == 1
MaxSends == 4
MaxSessions == 2
MaxInbox == 2

(* ------------------------------------------------------------- constants *)
CONNECTING == 0
OPEN == 1
CLOSING == 2
CLOSED == 3

Null == "null"
Undefined == "undefined"

Conns == 1..NConn
UuidNames == <<"u1", "u2", "u3", "u4", "u5", "u6", "u7", "u8", "u9">>
UUIDs == {UuidNames[i] : i \in 1..MaxUuid}
RoomNames == {"roomA"}
Contents == {"X", Undefined}
CallTypes == {"voice", Undefined}
Times == 1..MaxClock

(* ------------------------------------------------------ inbound messages *)
(* The raw text a client can put on the wire.  raw = "notjson" is text     *)
(* JSON.parse rejects, "null" is the JSON text null, "scalar" is any other *)
(* JSON text that is not an object (a number, a string, true), "object"    *)
(* is a JSON object with the listed properties; a property whose value is  *)
(* Undefined is absent from the object.                                    *)
Raw(r) ==
    [raw |-> r, type |-> Undefined, groupId |-> Undefined,
     content |-> Undefined, callType |-> Undefined, data |-> Undefined]

Obj(t) == [Raw("object") EXCEPT !.type = t]

Inputs ==
    {Raw("notjson"), Raw("null"), Raw("scalar")}
    \cup {Obj(t) : t \in {"create_group", "leave_group", "bogus", Undefined}}
    \cup {[Obj("join_group") EXCEPT !.groupId = g] :
             g \in RoomNames \cup DOMAIN groups}
    \cup {[Obj("chat_message") EXCEPT !.content = x] : x \in Contents}
    \cup {[Obj("start_call") EXCEPT !.callType = t] : t \in CallTypes}
    \cup {[Obj("encrypted_signaling") EXCEPT !.data = x] : x \in Contents}

(* JSON.parse(data): FALSE when it throws a SyntaxError *)
JSONparse(d) == d.raw # "notjson"

(* message.type throws a TypeError when message is null *)
TypeThrows(d) == d.raw = "null"

(* message.type: undefined on a primitive and on an object without it *)
MessageType(d) == IF d.raw = "object" THEN d.type ELSE Undefined

(* ------------------------------------------------------- outbound frames *)
(* JSON.stringify leaves out a property whose value is undefined; the      *)
(* receiver reads such a property as undefined again.                      *)
ErrorMsg(text) == [type |-> "error", message |-> text]
GroupCreated(id) == [type |-> "group_created", groupId |-> id]
JoinedGroup(id) == [type |-> "joined_group", groupId |-> id]
LeftGroup(id) == [type |-> "left_group", groupId |-> id]
CallAllowed(t) == [type |-> "call_allowed", callType |-> t]
ChatMessage(x, s, t) ==
    [type |-> "chat_message", content |-> x, sender |-> s, timestamp |-> t]
EncryptedSignaling(x) == [type |-> "encrypted_signaling", data |-> x]

NoOut == [c \in Conns |-> <<>>]

(* ws.send(JSON.stringify(msg)) *)
Send(o, ws, msg) == [o EXCEPT ![ws] = Append(@, msg)]

(* ------------------------------------------------------------ class Group *)
GroupAdd(members, ws) == members \cup {ws}

GroupRemove(members, ws) == members \ {ws}

\* mutants of Group.broadcast
BroadcastToAll(o, members, message, exceptWs) ==
    [m \in Conns |->
        IF m \in members /\ readyState[m] = OPEN
        THEN Append(o[m], message) ELSE o[m]]

BroadcastIgnoringState(o, members, message, exceptWs) ==
    [m \in Conns |->
        IF m \in members /\ m # exceptWs
        THEN Append(o[m], message) ELSE o[m]]

Broadcast(o, members, message, exceptWs) ==
    [m \in Conns |->
        IF m \in members /\ m # exceptWs /\ readyState[m] = OPEN
        THEN Append(o[m], message) ELSE o[m]]

(* -------------------------------------------------------------- uuidv4() *)
\* mutant: the generator returns the same identifier on every call
Uuidv4Constant == {UuidNames[1]}

(* A version-4 UUID is 122 random bits: the call returns an identifier     *)
(* that no earlier call returned and that is not a key of `groups`.  The   *)
(* identifiers are interchangeable tokens, so of the identifiers not yet   *)
(* returned the model hands out the one of least index.                    *)
Fresh == {i \in 1..MaxUuid : UuidNames[i] \notin issued \cup DOMAIN groups}

Uuidv4 == {UuidNames[i] : i \in {j \in Fresh : \A k \in Fresh : j <= k}}

(* groups.set(id, group) *)
MapSet(map, id, members) ==
    [k \in DOMAIN map \cup {id} |-> IF k = id THEN members ELSE map[k]]

Event(op, c, d) == [op |-> op, conn |-> c, msg |-> d, group |-> userGroup[c]]

(* ------------------------------------------------------------------ Init *)
RelayInit ==
    /\ groups = [k \in {} |-> {}]
    /\ userGroup = [c \in Conns |-> Null]
    /\ userId = [c \in Conns |-> Null]
    /\ readyState = [c \in Conns |-> CONNECTING]
    /\ issued = {}
    /\ out = NoOut
    /\ last = [op |-> "init", conn |-> 0, msg |-> Raw("none"), group |-> Null]
    /\ process = "running"

(* ------------------------------------------------- wss.on('connection') *)
Connect(c) ==
    /\ process = "running"
    /\ readyState[c] = CONNECTING
    /\ \E id \in Uuidv4 :
        /\ userId' = [userId EXCEPT ![c] = id]
        /\ issued' = issued \cup {id}
    /\ userGroup' = [userGroup EXCEPT ![c] = Null]
    /\ readyState' = [readyState EXCEPT ![c] = OPEN]
    /\ out' = NoOut
    /\ last' = Event("connection", c, Raw("none"))
    /\ UNCHANGED <<groups, process>>

(* The transport starts to close (close frame or socket end seen): the     *)
(* ws object is CLOSING and its 'close' event has not been emitted yet.    *)
TransportClosing(c) ==
    /\ process = "running"
    /\ readyState[c] = OPEN
    /\ readyState' = [readyState EXCEPT ![c] = CLOSING]
    /\ out' = NoOut
    /\ last' = Event("closing", c, Raw("none"))
    /\ UNCHANGED <<groups, userGroup, userId, issued, process>>

(* ------------------------------------------------------- ws.on('close') *)
\* mutant: the close handler forgets to remove the connection
OnCloseGroupsKeep(c) == groups

OnCloseGroups(c) ==
    IF userGroup[c] # Null
    THEN [groups EXCEPT ![userGroup[c]] = GroupRemove(@, c)]
    ELSE groups

OnClose(c) ==
    /\ process = "running"
    /\ readyState[c] \in {OPEN, CLOSING}
    /\ readyState' = [readyState EXCEPT ![c] = CLOSED]
    /\ groups' = OnCloseGroups(c)
    /\ out' = NoOut
    /\ last' = Event("close", c, Raw("none"))
    /\ UNCHANGED <<userGroup, userId, issued, process>>

(* ----------------------------------------------------- ws.on('message') *)
Handling(c, d) ==
    /\ process = "running"
    /\ readyState[c] = OPEN
    /\ d \in Inputs

Dispatch(c, d, t) ==
    /\ Handling(c, d)
    /\ JSONparse(d)
    /\ ~TypeThrows(d)
    /\ MessageType(d) = t

InvalidJSON(c, d) ==
    /\ Handling(c, d)
    /\ ~JSONparse(d)
    /\ out' = Send(NoOut, c, ErrorMsg("Invalid JSON"))
    /\ last' = Event("invalid_json", c, d)
    /\ UNCHANGED <<groups, userGroup, userId, readyState, issued, process>>

(* message is null: `message.type` throws inside the async handler, the    *)
(* returned promise rejects and nothing handles the rejection.  Node then  *)
(* either terminates the process (--unhandled-rejections=throw, the        *)
(* default since Node 15) or only warns and keeps running.                 *)
UnhandledRejection(c, d) ==
    /\ Handling(c, d)
    /\ JSONparse(d)
    /\ TypeThrows(d)
    /\ out' = NoOut
    /\ last' = Event("unhandled_rejection", c, d)
    /\ \/ /\ process' = "running"
          /\ UNCHANGED <<groups, userGroup, userId, readyState, issued>>
       \/ /\ process' = "exited"
          /\ groups' = [k \in {} |-> {}]
          /\ userGroup' = [x \in Conns |-> Null]
          /\ readyState' =
                [x \in Conns |->
                    IF readyState[x] = CONNECTING THEN CONNECTING ELSE CLOSED]
          /\ UNCHANGED <<userId, issued>>

\* mutant: create_group does not register the new Group in the room table
CreateGroupUnregistered(c, d) ==
    /\ Dispatch(c, d, "create_group")
    /\ \E groupId \in Uuidv4 :
        /\ issued' = issued \cup {groupId}
        /\ groups' = groups
        /\ userGroup' = [userGroup EXCEPT ![c] = groupId]
        /\ out' = Send(NoOut, c, GroupCreated(groupId))
    /\ last' = Event("create_group", c, d)
    /\ UNCHANGED <<userId, readyState, process>>

CreateGroup(c, d) ==
    /\ Dispatch(c, d, "create_group")
    /\ \E groupId \in Uuidv4 :
        /\ issued' = issued \cup {groupId}
        /\ groups' = MapSet(groups, groupId, GroupAdd({}, c))
        /\ userGroup' = [userGroup EXCEPT ![c] = groupId]
        /\ out' = Send(NoOut, c, GroupCreated(groupId))
    /\ last' = Event("create_group", c, d)
    /\ UNCHANGED <<userId, readyState, process>>

\* mutant: join_group registers a new Group even when the room exists
JoinGroupReplaces(c, d) ==
    /\ Dispatch(c, d, "join_group")
    /\ LET groupId == d.groupId
           registered == MapSet(groups, groupId, {})
       IN /\ groups' = [registered EXCEPT ![groupId] = GroupAdd(@, c)]
          /\ userGroup' = [userGroup EXCEPT ![c] = groupId]
          /\ out' = Send(NoOut, c, JoinedGroup(groupId))
    /\ last' = Event("join_group", c, d)
    /\ UNCHANGED <<userId, readyState, issued, process>>

JoinGroup(c, d) ==
    /\ Dispatch(c, d, "join_group")
    /\ LET groupId == d.groupId
           registered == IF groupId \in DOMAIN groups
                         THEN groups ELSE MapSet(groups, groupId, {})
       IN /\ groups' = [registered EXCEPT ![groupId] = GroupAdd(@, c)]
          /\ userGroup' = [userGroup EXCEPT ![c] = groupId]
          /\ out' = Send(NoOut, c, JoinedGroup(groupId))
    /\ last' = Event("join_group", c, d)
    /\ UNCHANGED <<userId, readyState, issued, process>>

\* mutant: leave_group outside a room is answered with an error
LeaveGroupStrict(c, d) ==
    /\ Dispatch(c, d, "leave_group")
    /\ IF userGroup[c] # Null
       THEN /\ groups' = [groups EXCEPT ![userGroup[c]] = GroupRemove(@, c)]
            /\ out' = Send(NoOut, c, LeftGroup(userGroup[c]))
            /\ userGroup' = [userGroup EXCEPT ![c] = Null]
       ELSE /\ out' = Send(NoOut, c, ErrorMsg("Not in a group"))
            /\ UNCHANGED <<groups, userGroup>>
    /\ last' = Event("leave_group", c, d)
    /\ UNCHANGED <<userId, readyState, issued, process>>

LeaveGroup(c, d) ==
    /\ Dispatch(c, d, "leave_group")
    /\ IF userGroup[c] # Null
       THEN /\ groups' = [groups EXCEPT ![userGroup[c]] = GroupRemove(@, c)]
            /\ out' = Send(NoOut, c, LeftGroup(userGroup[c]))
            /\ userGroup' = [userGroup EXCEPT ![c] = Null]
       ELSE /\ out' = NoOut
            /\ UNCHANGED <<groups, userGroup>>
    /\ last' = Event("leave_group", c, d)
    /\ UNCHANGED <<userId, readyState, issued, process>>

ChatMessageCase(c, d) ==
    /\ Dispatch(c, d, "chat_message")
    /\ IF userGroup[c] = Null
       THEN out' = Send(NoOut, c, ErrorMsg("Not in a group"))
       ELSE \E now \in Times :
              out' = Broadcast(NoOut, groups[userGroup[c]],
                               ChatMessage(d.content, userId[c], now), c)
    /\ last' = Event("chat_message", c, d)
    /\ UNCHANGED <<groups, userGroup, userId, readyState, issued, process>>

\* mutant: call_allowed is announced to the whole room
StartCallAnnounced(c, d) ==
    /\ Dispatch(c, d, "start_call")
    /\ IF userGroup[c] = Null
       THEN out' = Send(NoOut, c, ErrorMsg("Not in a group"))
       ELSE out' = Broadcast(NoOut, groups[userGroup[c]],
                             CallAllowed(d.callType), 0)
    /\ last' = Event("start_call", c, d)
    /\ UNCHANGED <<groups, userGroup, userId, readyState, issued, process>>

StartCall(c, d) ==
    /\ Dispatch(c, d, "start_call")
    /\ IF userGroup[c] = Null
       THEN out' = Send(NoOut, c, ErrorMsg("Not in a group"))
       ELSE out' = Send(NoOut, c, CallAllowed(d.callType))
    /\ last' = Event("start_call", c, d)
    /\ UNCHANGED <<groups, userGroup, userId, readyState, issued, process>>

EncryptedSignalingCase(c, d) ==
    /\ Dispatch(c, d, "encrypted_signaling")
    /\ IF userGroup[c] = Null
       THEN out' = NoOut
       ELSE out' = Broadcast(NoOut, groups[userGroup[c]],
                             EncryptedSignaling(d.data), c)
    /\ last' = Event("encrypted_signaling", c, d)
    /\ UNCHANGED <<groups, userGroup, userId, readyState, issued, process>>

KnownTypes ==
    {"create_group", "join_group", "leave_group", "chat_message",
     "start_call", "encrypted_signaling"}

\* mutant: an unknown type is answered and the connection is closed
UnknownTypeCloses(c, d) ==
    /\ Handling(c, d)
    /\ JSONparse(d)
    /\ ~TypeThrows(d)
    /\ MessageType(d) \notin KnownTypes
    /\ out' = Send(NoOut, c, ErrorMsg("Unknown message type"))
    /\ readyState' = [readyState EXCEPT ![c] = CLOSING]
    /\ last' = Event("unknown_type", c, d)
    /\ UNCHANGED <<groups, userGroup, userId, issued, process>>

UnknownType(c, d) ==
    /\ Handling(c, d)
    /\ JSONparse(d)
    /\ ~TypeThrows(d)
    /\ MessageType(d) \notin KnownTypes
    /\ out' = Send(NoOut, c, ErrorMsg("Unknown message type"))
    /\ last' = Event("unknown_type", c, d)
    /\ UNCHANGED <<groups, userGroup, userId, readyState, issued, process>>

(* =============================================== symmetric channel *)
(* A transport value is what encrypt returns and decrypt receives.         *)
(* kind = "b64" is btoa(iv || AES-GCM ciphertext): key and iv are the key  *)
(* and nonce it was sealed with, bytes the encoded plaintext, tag = "bad"  *)
(* marks a string that was altered after sealing (the tag no longer        *)
(* verifies, or atob rejects it).  kind = "value" is a plaintext value     *)
(* itself: a chat string, or a signaling structure named by its `type`.    *)
ChatKey == "chatKey"
CallKey == "callKey"
ForeignKey == "peerKey"
NoBytes == <<>>

Cipher(k, n, b) ==
    [kind |-> "b64", key |-> k, iv |-> n, bytes |-> b, tag |-> "ok", v |-> Null]

Value(p) ==
    [kind |-> "value", key |-> Null, iv |-> 0, bytes |-> NoBytes,
     tag |-> Null, v |-> p]

NoValue == [Value(Null) EXCEPT !.kind = "none"]

DecryptionError == [Value(Null) EXCEPT !.kind = "error"]

Corrupt(t) == [t EXCEPT !.tag = "bad"]

(* chat texts a user can submit: a well-formed text, a text holding a     *)
(* lone surrogate code unit, and the text of a transport string that this  *)
(* client sealed earlier                                                   *)
LoneSurrogate == "lone-surrogate"
Replacement == "U+FFFD"
SealedText == "sealed"
ChatTexts == {"hello", LoneSurrogate, SealedText}
SignalTypes == {"offer", "answer", "ice-candidate"}
Structures == SignalTypes \cup {"mute_status"}

(* new TextEncoder().encode(message): the argument is converted to a      *)
(* scalar value string, a lone surrogate becomes U+FFFD                    *)
ToUSV(message) == IF message = LoneSurrogate THEN Replacement ELSE message

Encode(message) == <<"utf8", "text", ToUSV(message)>>

(* new TextDecoder().decode(bytes) *)
Decode(bytes) == bytes[3]

(* encoder.encode(JSON.stringify(data)) *)
EncodeJSON(data) == <<"utf8", "json", data>>

(* JSON.parse(decoder.decode(bytes)): throws on text that is not JSON *)
ParsesAsJSON(bytes) == bytes[2] = "json"

(* atob(t) and the split into nonce and ciphertext: the bytes a string    *)
(* stands for, whether encrypt returned it or a user typed it              *)
Atob(t) ==
    IF t.kind = "value" /\ t.v = SealedText
    THEN Cipher(ChatKey, 1, Encode("hello")) ELSE t

(* atob succeeds and crypto.subtle.decrypt verifies the tag under `key` *)
Opens(key, t) ==
    Atob(t).kind = "b64" /\ Atob(t).key = key /\ Atob(t).tag = "ok"

(* CryptoManager.encryptMessage; err: crypto.subtle.encrypt rejects or     *)
(* String.fromCharCode(...combined) throws (RangeError on a long message)  *)
EncryptMessage(key, message, n, err) ==
    IF key = Null THEN Value(message)
    ELSE IF err THEN Value(message)
    ELSE Cipher(key, n, Encode(message))

\* mutant: the nonce is split off at the wrong offset, the tag never verifies
DecryptMessageWrongSplit(key, t) == t

(* CryptoManager.decryptMessage *)
DecryptMessage(key, t) ==
    IF key = Null THEN t
    ELSE IF Opens(key, t) THEN Value(Decode(Atob(t).bytes))
    ELSE t

(* VoiceManager.encryptSignalingData *)
EncryptSignalingData(key, data, n, err) ==
    IF key = Null THEN Value(data)
    ELSE IF err THEN Value(data)
    ELSE Cipher(key, n, EncodeJSON(data))

(* VoiceManager.decryptSignalingData *)
DecryptSignalingData(key, t) ==
    IF key = Null THEN t
    ELSE IF Opens(key, t) /\ ParsesAsJSON(Atob(t).bytes)
         THEN Value(Atob(t).bytes[3])
    ELSE t

(* window.crypto.getRandomValues(new Uint8Array(12)): 96 random bits, a    *)
(* nonce that was not drawn before                                         *)
NextIv == ivCount + 1

NoCall == [ch |-> "none", in |-> NoValue, out |-> NoValue, keyed |-> FALSE]

Call(ch, in, o, k) == [ch |-> ch, in |-> in, out |-> o, keyed |-> k # Null]

CryptoInit ==
    /\ sharedKey = Null
    /\ encryptionKey = Null
    /\ ivCount = 0
    /\ enc = NoCall
    /\ prevEnc = NoCall
    /\ dec = NoCall
    /\ sent = NoValue

(* CryptoManager.initializeKeys resolves: the AES-GCM key is stored *)
InitializeKeys ==
    /\ sharedKey = Null
    /\ sharedKey' = ChatKey
    /\ UNCHANGED <<encryptionKey, ivCount, enc, prevEnc, dec, sent>>

(* VoiceManager.initializeEncryption resolves *)
InitializeEncryption ==
    /\ encryptionKey = Null
    /\ encryptionKey' = CallKey
    /\ UNCHANGED <<sharedKey, ivCount, enc, prevEnc, dec, sent>>

Drawn(o) == IF o.kind = "b64" THEN NextIv ELSE ivCount

(* SecureChatApp.sendMessage: encrypt, then wss.send when the socket is    *)
(* open                                                                    *)
SendMessage(text, err, open) ==
    /\ ivCount < MaxIv
    /\ text = SealedText => (sharedKey # Null /\ ivCount >= 1)
    /\ LET o == EncryptMessage(sharedKey, text, NextIv, err)
       IN /\ prevEnc' = enc
          /\ enc' = Call("chat", Value(text), o, sharedKey)
          /\ ivCount' = Drawn(o)
          /\ sent' = IF open THEN o ELSE sent
    /\ UNCHANGED <<sharedKey, encryptionKey, dec>>

(* a call of encryptSignalingData (offer, answer, candidate or data       *)
(* channel message)                                                        *)
EncryptSignaling(data, err) ==
    /\ ivCount < MaxIv
    /\ LET o == EncryptSignalingData(encryptionKey, data, NextIv, err)
       IN /\ prevEnc' = enc
          /\ enc' = Call("signaling", Value(data), o, encryptionKey)
          /\ ivCount' = Drawn(o)
    /\ UNCHANGED <<sharedKey, encryptionKey, dec, sent>>

(* what can arrive for decryption: the last encrypt result of this client, *)
(* that result altered in transit, a ciphertext sealed by a peer under its *)
(* own key, or an unencrypted value                                        *)
Arriving(ch) ==
    {Cipher(ForeignKey, 1, IF ch = "chat" THEN Encode("hello")
                           ELSE EncodeJSON("offer"))}
    \cup (IF enc.ch = ch THEN {enc.out} ELSE {})
    \cup (IF enc.ch = ch /\ enc.out.kind = "b64"
          THEN {Corrupt(enc.out)} ELSE {})
    \cup (IF ch = "chat" THEN {} ELSE {Value(x) : x \in Structures})

(* SecureChatApp.displayMessage -> decryptMessage(message.content) *)
DisplayMessage(t) ==
    /\ t \in Arriving("chat")
    /\ dec' = Call("chat", t, DecryptMessage(sharedKey, t), sharedKey)
    /\ UNCHANGED <<sharedKey, encryptionKey, ivCount, enc, prevEnc, sent>>

(* handleEncryptedSignaling -> decryptSignalingData(encryptedData) *)
DecryptSignaling(t) ==
    /\ t \in Arriving("signaling")
    /\ dec' = Call("signaling", t, DecryptSignalingData(encryptionKey, t),
                   encryptionKey)
    /\ UNCHANGED <<sharedKey, encryptionKey, ivCount, enc, prevEnc, sent>>

CryptoNext ==
    \/ InitializeKeys /\ UNCHANGED <<rvars, nvars, ovars, avars>>
    \/ InitializeEncryption /\ UNCHANGED <<rvars, nvars, ovars, avars>>
    \/ \E x \in ChatTexts, err \in BOOLEAN, open \in BOOLEAN :
          SendMessage(x, err, open) /\ UNCHANGED <<rvars, nvars, ovars, avars>>
    \/ \E x \in Structures, err \in BOOLEAN :
          EncryptSignaling(x, err) /\ UNCHANGED <<rvars, nvars, ovars, avars>>
    \/ \E t \in Arriving("chat") : DisplayMessage(t) /\ UNCHANGED <<rvars, nvars, ovars, avars>>
    \/ \E t \in Arriving("signaling") : DecryptSignaling(t) /\ UNCHANGED <<rvars, nvars, ovars, avars>>

(* ================================================= ordered transport *)
OrderInit ==
    /\ wire = [c \in Conns |-> <<>>]
    /\ sentCount = [c \in Conns |-> 0]
    /\ delivered = [c \in Conns |-> <<>>]

(* what the clients write in this specification: joinGroup, sendMessage    *)
(* and the signaling sends of the VoiceManager                             *)
OrderInputs ==
    {[Obj("join_group") EXCEPT !.groupId = g] : g \in RoomNames}
    \cup {[Obj("chat_message") EXCEPT !.content = "X"],
          [Obj("encrypted_signaling") EXCEPT !.data = "X"]}

(* the number of messages the connections in S have written *)
RECURSIVE Written(_)
Written(S) ==
    IF S = {} THEN 0
    ELSE LET c == CHOOSE x \in S : TRUE
         IN sentCount[c] + Written(S \ {c})

(* wss.send(JSON.stringify(...)) on the client: the n-th message of this   *)
(* connection is appended to the stream                                    *)
ClientSend(c, d) ==
    /\ process = "running"
    /\ readyState[c] = OPEN
    /\ d \in OrderInputs
    /\ Written(Conns) < MaxSends
    /\ sentCount' = [sentCount EXCEPT ![c] = @ + 1]
    /\ wire' = [wire EXCEPT ![c] = Append(@, [n |-> sentCount[c] + 1, d |-> d])]
    /\ UNCHANGED delivered

RelayedTypes == {"chat_message", "encrypted_signaling"}

(* the relayed frames among those a handler wrote to one socket, tagged    *)
(* with the sender and the number of the message they relay                *)
Tagged(frames, c, n) ==
    LET relayed == SelectSeq(frames, LAMBDA f : f.type \in RelayedTypes)
    IN [i \in 1..Len(relayed) |->
           [from |-> c, n |-> n, type |-> relayed[i].type]]

(* the message handler run on the i-th pending message of connection c *)
HandleAt(c, i) ==
    /\ i \in 1..Len(wire[c])
    /\ LET m == wire[c][i]
       IN /\ \/ JoinGroup(c, m.d)
             \/ ChatMessageCase(c, m.d)
             \/ EncryptedSignalingCase(c, m.d)
          /\ delivered' = [r \in Conns |->
                              delivered[r] \o Tagged(out'[r], c, m.n)]
    /\ wire' = [wire EXCEPT ![c] =
                   SubSeq(@, 1, i - 1) \o SubSeq(@, i + 1, Len(@))]
    /\ UNCHANGED sentCount

\* mutant: the handler is run on any pending message of the connection
OnMessageAnyOrder(c) == \E i \in 1..Len(wire[c]) : HandleAt(c, i)

(* ws.on('message'): the 'message' events of one connection are emitted    *)
(* in stream order, and the handler, async but without an await, runs to   *)
(* its end before the next event is emitted                                *)
OnMessage(c) == HandleAt(c, 1)

OrderNext ==
    \/ \E c \in Conns : Connect(c) /\ UNCHANGED <<cvars, nvars, ovars, avars>>
    \/ \E c \in Conns, d \in OrderInputs :
          ClientSend(c, d) /\ UNCHANGED <<rvars, cvars, nvars, avars>>
    \/ \E c \in Conns : OnMessage(c) /\ UNCHANGED <<cvars, nvars, avars>>

(* ============================================== Session Negotiator *)
(* A peer connection, a media stream, an interval timer is named by a      *)
(* positive number, 0 is null.  `made` counts the startCall and the        *)
(* handleOffer flows begun: the n-th startCall is flow n, the n-th         *)
(* handleOffer is flow OfferBase + n.  The stream, the peer connection and *)
(* the timer a flow creates carry the number of the flow; the remote       *)
(* stream of peer connection p is RemoteBase + p.                          *)
OfferBase == 100
RemoteBase == 1000

(* main.js passes `this.ws`, a field that is never assigned, to startCall; *)
(* handleEncryptedSignaling is passed `this.wss`                           *)
StartCallWs == Undefined
SignalingWs == "wss"

NewPc(role, onstate, handlers) ==
    [role |-> role, state |-> "new", onstate |-> onstate,
     handlers |-> handlers, remote |-> "none", local |-> "none",
     candidate |-> FALSE,
     ws |-> IF handlers THEN StartCallWs ELSE "none", gathered |-> FALSE]

(* a suspended flow: the await it is at, its number, the peer connection   *)
(* the awaited call was made on, the encrypted payload it holds, and of a  *)
(* handleOffer how its offer was decrypted and the offer's isVideo         *)
NoFlow == [pc |-> "idle", id |-> 0, target |-> 0, out |-> NoValue,
           how |-> "none", video |-> FALSE]

(* the last Negotiator event: the operation, its argument, whether it     *)
(* threw, the handler it reached, the peer connection it is about          *)
NEvent(op, arg, threw, to) ==
    [op |-> op, arg |-> arg, threw |-> threw, dispatched |-> to, pc |-> 0]

PcEvent(p, st, threw, to) ==
    [NEvent("connectionstatechange", st, threw, to) EXCEPT !.pc = p]

NegotiatorInit ==
    /\ localStream = 0
    /\ remoteStream = 0
    /\ peerConnection = 0
    /\ dataChannel = 0
    /\ isCallActive = FALSE
    /\ callTimer = 0
    /\ pcs = <<>>
    /\ liveTracks = {}
    /\ liveTimers = {}
    /\ made = [start |-> 0, offer |-> 0]
    /\ sc = NoFlow
    /\ ho = NoFlow
    /\ timeouts = 0
    /\ emitted = {}
    /\ nlast = NEvent("init", "none", FALSE, "none")

Closed(p) == pcs[p].state = "closed"

(* RTCPeerConnection.close(): nothing of a closed peer connection is read  *)
(* again but that it is closed                                             *)
Close(base, p) ==
    [base EXCEPT ![p] = [NewPc(base[p].role, FALSE, FALSE)
                           EXCEPT !.state = "closed"]]

(* VoiceManager.startCallTimer: setInterval, recorded in callTimer *)
StartCallTimer(id) ==
    /\ callTimer' = id
    /\ liveTimers' = liveTimers \cup {id}

(* VoiceManager.handleCallError: setTimeout(() => this.endCall(), 3000) *)
HandleCallError == timeouts' = timeouts + 1

(* ws && ws.readyState === WebSocket.OPEN: ws.send(encrypted_signaling) *)
Emit(ws, open, payload) ==
    emitted' = IF ws # Undefined /\ open THEN emitted \cup {payload}
               ELSE emitted

(* the nonce of a signaling payload is not followed in the Negotiator:     *)
(* every payload is recorded with the same placeholder                     *)
NoNonce == 0

(* how a flow's last step is recorded: the relay transport of the client   *)
(* was open or not when the flow reached its send                          *)
Finished(open) == IF open THEN "finished, open" ELSE "finished, not open"

(* --------------------------------------------------------- startCall *)
(* up to `await navigator.mediaDevices.getUserMedia(constraints)` *)
StartCallBegin ==
    /\ sc.pc = "idle"
    /\ made' = [made EXCEPT !.start = @ + 1]
    /\ sc' = [NoFlow EXCEPT !.pc = "media", !.id = made.start + 1]
    /\ nlast' = NEvent("startCall", "resumed", FALSE, "none")
    /\ UNCHANGED <<localStream, remoteStream, peerConnection, dataChannel,
                   isCallActive, callTimer, pcs, liveTracks, liveTimers,
                   ho, timeouts, emitted>>
    /\ UNCHANGED cvars

(* the catch of startCall: handleCallError, the flow ends *)
StartCallCatch(at) ==
    /\ HandleCallError
    /\ sc' = NoFlow
    /\ nlast' = NEvent("startCall", at, TRUE, "none")

(* getUserMedia settles; on success the peer connection and the data      *)
(* channel are created, the handlers set, and createOffer is awaited       *)
StartCallMedia(ok) ==
    /\ sc.pc = "media"
    /\ IF ok
       THEN /\ localStream' = sc.id
            /\ liveTracks' = liveTracks \cup {sc.id}
            /\ pcs' = pcs @@ (sc.id :> NewPc("offerer", TRUE, TRUE))
            /\ peerConnection' = sc.id
            /\ dataChannel' = sc.id
            /\ sc' = [sc EXCEPT !.pc = "offer", !.target = sc.id]
            /\ nlast' = NEvent("startCall", "resumed", FALSE, "none")
            /\ UNCHANGED timeouts
       ELSE /\ StartCallCatch("media")
            /\ UNCHANGED <<localStream, liveTracks, pcs, peerConnection,
                           dataChannel>>
    /\ UNCHANGED <<remoteStream, isCallActive, callTimer, liveTimers, made,
                   ho, emitted>>
    /\ UNCHANGED cvars

(* createOffer settles; then `await this.peerConnection                    *)
(* .setLocalDescription(offer)` on whatever the field holds now            *)
StartCallOffer ==
    /\ sc.pc = "offer"
    /\ IF Closed(sc.target) \/ peerConnection = 0
       THEN StartCallCatch("offer")
       ELSE /\ sc' = [sc EXCEPT !.pc = "local", !.target = peerConnection]
            /\ nlast' = NEvent("startCall", "resumed", FALSE, "none")
            /\ UNCHANGED timeouts
    /\ UNCHANGED <<localStream, remoteStream, peerConnection, dataChannel,
                   isCallActive, callTimer, pcs, liveTracks, liveTimers,
                   made, ho, emitted>>
    /\ UNCHANGED cvars

(* setLocalDescription settles; then `await this.encryptSignalingData` *)
StartCallLocal ==
    /\ sc.pc = "local"
    /\ IF Closed(sc.target)
       THEN /\ StartCallCatch("local")
            /\ UNCHANGED pcs
       ELSE /\ pcs' = [pcs EXCEPT ![sc.target].local = "offer"]
            /\ sc' = [sc EXCEPT !.pc = "encrypt",
                                !.out = EncryptSignalingData(
                                           encryptionKey, "offer", NoNonce,
                                           FALSE)]
            /\ nlast' = NEvent("startCall", "resumed", FALSE, "none")
            /\ UNCHANGED timeouts
    /\ UNCHANGED <<localStream, remoteStream, peerConnection, dataChannel,
                   isCallActive, callTimer, liveTracks, liveTimers, made,
                   ho, emitted>>
    /\ UNCHANGED cvars

(* the encrypted offer is sent when ws is open; isCallActive = true;       *)
(* startCallTimer()                                                        *)
StartCallFinish(open) ==
    /\ sc.pc = "encrypt"
    /\ Emit(StartCallWs, open, sc.out)
    /\ isCallActive' = TRUE
    /\ StartCallTimer(sc.id)
    /\ sc' = NoFlow
    /\ nlast' = NEvent("startCall", Finished(open), FALSE, "none")
    /\ UNCHANGED <<localStream, remoteStream, peerConnection, dataChannel,
                   pcs, liveTracks, made, ho, timeouts>>
    /\ UNCHANGED cvars

(* ----------------------------------------------------------- endCall *)
\* mutant: endCall forgets to stop the duration timer
EndCallKeepsTimer(base) ==
    /\ liveTracks' = liveTracks \ {localStream, remoteStream}
    /\ localStream' = 0
    /\ remoteStream' = 0
    /\ dataChannel' = 0
    /\ pcs' = IF peerConnection # 0
              THEN Close(base, peerConnection)
              ELSE base
    /\ peerConnection' = 0
    /\ isCallActive' = FALSE
    /\ UNCHANGED <<callTimer, liveTimers>>

(* VoiceManager.endCall on the peer connections `base`: every handle is    *)
(* tested for null before it is used                                       *)
EndCall(base) ==
    /\ liveTracks' = liveTracks \ {localStream, remoteStream}
    /\ localStream' = 0
    /\ remoteStream' = 0
    /\ dataChannel' = 0
    /\ pcs' = IF peerConnection # 0
              THEN Close(base, peerConnection)
              ELSE base
    /\ peerConnection' = 0
    /\ isCallActive' = FALSE
    /\ liveTimers' = liveTimers \ {callTimer}
    /\ callTimer' = 0

(* SecureChatApp.endCall (the end-call button) *)
UserEndCall ==
    /\ EndCall(pcs)
    /\ nlast' = NEvent("endCall", "user", FALSE, "none")
    /\ UNCHANGED <<made, sc, ho, timeouts, emitted>>
    /\ UNCHANGED cvars

(* the timeout set by handleCallError fires *)
ErrorTimeout ==
    /\ timeouts > 0
    /\ timeouts' = timeouts - 1
    /\ EndCall(pcs)
    /\ nlast' = NEvent("endCall", "timeout", FALSE, "none")
    /\ UNCHANGED <<made, sc, ho, emitted>>
    /\ UNCHANGED cvars

(* ------------------------------------------- peer connection events *)
(* RTCPeerConnection.connectionState changes that are reported *)
Transitions ==
    {<<"new", "connected">>, <<"new", "failed">>,
     <<"connected", "disconnected">>, <<"disconnected", "connected">>,
     <<"disconnected", "failed">>}

(* The connection state of a peer connection with both descriptions set   *)
(* changes.  Only startCall sets onconnectionstatechange; the handler      *)
(* reads this.peerConnection.connectionState, the state of the peer        *)
(* connection the field holds when the event is handled.                   *)
ConnectionStateChange(p, st) ==
    /\ p \in DOMAIN pcs
    /\ ~Closed(p)
    /\ pcs[p].remote # "none"
    /\ pcs[p].local # "none"
    /\ <<pcs[p].state, st>> \in Transitions
    /\ LET base == [pcs EXCEPT ![p].state = st]
       IN IF ~pcs[p].onstate
          THEN /\ pcs' = base
               /\ nlast' = PcEvent(p, st, FALSE, "none")
               /\ UNCHANGED <<localStream, remoteStream, peerConnection,
                              dataChannel, isCallActive, callTimer,
                              liveTracks, liveTimers>>
          ELSE IF peerConnection = 0
          THEN /\ pcs' = base
               /\ nlast' = PcEvent(p, st, TRUE, "none")
               /\ UNCHANGED <<localStream, remoteStream, peerConnection,
                              dataChannel, isCallActive, callTimer,
                              liveTracks, liveTimers>>
          ELSE IF base[peerConnection].state \in {"disconnected", "failed"}
          THEN /\ EndCall(base)
               /\ nlast' = PcEvent(p, st, FALSE,
                                  "handleCallDisconnection")
          ELSE /\ pcs' = base
               /\ nlast' = PcEvent(p, st, FALSE,
                                  IF base[peerConnection].state = "connected"
                                  THEN "onCallConnected" ELSE "none")
               /\ UNCHANGED <<localStream, remoteStream, peerConnection,
                              dataChannel, isCallActive, callTimer,
                              liveTracks, liveTimers>>
    /\ UNCHANGED <<made, sc, ho, timeouts, emitted>>
    /\ UNCHANGED cvars

(* peerConnection.onicecandidate with a candidate: gathering starts once   *)
(* a local description is set; the candidate is encrypted and sent on the  *)
(* ws the handler closed over, when that is open                           *)
OnIceCandidate(p, open) ==
    /\ p \in DOMAIN pcs
    /\ ~Closed(p)
    /\ pcs[p].handlers
    /\ pcs[p].local # "none"
    /\ ~pcs[p].gathered
    /\ pcs' = [pcs EXCEPT ![p].gathered = TRUE]
    /\ Emit(pcs[p].ws, open,
            EncryptSignalingData(encryptionKey, "ice-candidate", NoNonce,
                                 FALSE))
    /\ nlast' = [NEvent("icecandidate", Finished(open), FALSE, "none")
                   EXCEPT !.pc = p]
    /\ UNCHANGED <<localStream, remoteStream, peerConnection, dataChannel,
                   isCallActive, callTimer, liveTracks, liveTimers, made,
                   sc, ho, timeouts>>
    /\ UNCHANGED cvars

(* peerConnection.ontrack: this.remoteStream = event.streams[0] *)
OnTrack(p) ==
    /\ p \in DOMAIN pcs
    /\ ~Closed(p)
    /\ pcs[p].handlers
    /\ pcs[p].remote # "none"
    /\ remoteStream # RemoteBase + p
    /\ remoteStream' = RemoteBase + p
    /\ liveTracks' = liveTracks \cup {RemoteBase + p}
    /\ nlast' = NEvent("track", "remote", FALSE, "none")
    /\ UNCHANGED <<localStream, peerConnection, dataChannel, isCallActive,
                   callTimer, pcs, liveTimers, made, sc, ho, timeouts,
                   emitted>>
    /\ UNCHANGED cvars
(* ------------------------------------------- inbound signaling *)
(* data.type of what decryptSignalingData returned: a base64 string has    *)
(* no `type`                                                               *)
DataType(data) == IF data.kind = "value" THEN data.v ELSE Undefined

(* the payload was opened and parsed under this client's key *)
Decrypted(t) ==
    encryptionKey # Null /\ Opens(encryptionKey, t)
                         /\ ParsesAsJSON(Atob(t).bytes)

(* encrypted_signaling payloads the relay can deliver: structures sealed   *)
(* under this client's key, one of them altered, one sealed under another  *)
(* key, and unencrypted structures                                         *)
Incoming ==
    {Cipher(CallKey, 0, EncodeJSON(x)) : x \in Structures}
    \cup {Corrupt(Cipher(CallKey, 0, EncodeJSON("offer"))),
          Cipher(ForeignKey, 0, EncodeJSON("offer"))}
    \cup {Value(x) : x \in Structures}

(* the payloads that carry an offer, on which alone isVideo is read *)
Offers == {t \in Incoming : Atob(t).bytes = EncodeJSON("offer")}
               \cup {Value("offer")}

HowDecrypted(t) == IF Decrypted(t) THEN "decrypted" ELSE "failed"

(* handleOffer up to its first await: without a peer connection one is     *)
(* created and getUserMedia awaited, otherwise setRemoteDescription is     *)
(* awaited at once                                                         *)
HandleOfferBegin(how, isVideo) ==
    /\ ho.pc = "idle"
    /\ made' = [made EXCEPT !.offer = @ + 1]
    /\ IF peerConnection = 0
       THEN /\ pcs' = pcs @@ (OfferBase + made.offer + 1
                                 :> NewPc("answerer", FALSE, FALSE))
            /\ peerConnection' = OfferBase + made.offer + 1
            /\ ho' = [NoFlow EXCEPT !.pc = "media",
                                    !.id = OfferBase + made.offer + 1,
                                    !.target = OfferBase + made.offer + 1,
                                    !.how = how, !.video = isVideo]
       ELSE /\ ho' = [NoFlow EXCEPT !.pc = "remote",
                                    !.id = OfferBase + made.offer + 1,
                                    !.target = peerConnection,
                                    !.how = how, !.video = isVideo]
            /\ UNCHANGED <<pcs, peerConnection>>
    /\ nlast' = NEvent("signaling", how, FALSE, "handleOffer")
    /\ UNCHANGED <<localStream, remoteStream, dataChannel, isCallActive,
                   callTimer, liveTracks, liveTimers, sc, timeouts, emitted>>

\* mutant: the answer is applied to whatever peer connection exists
HandleAnswerAlways(how) ==
    /\ IF peerConnection = 0
       THEN /\ nlast' = NEvent("signaling", how, FALSE, "handleAnswer")
            /\ UNCHANGED pcs
       ELSE /\ pcs' = [pcs EXCEPT ![peerConnection].remote = "answer"]
            /\ nlast' = [NEvent("signaling", how, FALSE, "handleAnswer")
                           EXCEPT !.pc = peerConnection]
    /\ UNCHANGED <<localStream, remoteStream, peerConnection, dataChannel,
                   isCallActive, callTimer, liveTracks, liveTimers, made,
                   sc, ho, timeouts, emitted>>

(* handleAnswer: setRemoteDescription(answer) is accepted while the local  *)
(* offer is outstanding                                                    *)
HandleAnswer(how) ==
    /\ IF peerConnection = 0
       THEN /\ nlast' = NEvent("signaling", how, FALSE, "handleAnswer")
            /\ UNCHANGED pcs
       ELSE IF /\ pcs[peerConnection].local = "offer"
               /\ pcs[peerConnection].remote = "none"
       THEN /\ pcs' = [pcs EXCEPT ![peerConnection].remote = "answer"]
            /\ nlast' = [NEvent("signaling", how, FALSE, "handleAnswer")
                           EXCEPT !.pc = peerConnection]
       ELSE /\ nlast' = NEvent("signaling", how, TRUE, "handleAnswer")
            /\ UNCHANGED pcs
    /\ UNCHANGED <<localStream, remoteStream, peerConnection, dataChannel,
                   isCallActive, callTimer, liveTracks, liveTimers, made,
                   sc, ho, timeouts, emitted>>

(* handleIceCandidate: addIceCandidate needs a remote description *)
HandleIceCandidate(how) ==
    /\ IF peerConnection = 0
       THEN /\ nlast' = NEvent("signaling", how, FALSE, "handleIceCandidate")
            /\ UNCHANGED pcs
       ELSE IF pcs[peerConnection].remote # "none"
       THEN /\ pcs' = [pcs EXCEPT ![peerConnection].candidate = TRUE]
            /\ nlast' = [NEvent("signaling", how, FALSE, "handleIceCandidate")
                           EXCEPT !.pc = peerConnection]
       ELSE /\ nlast' = NEvent("signaling", how, TRUE, "handleIceCandidate")
            /\ UNCHANGED pcs
    /\ UNCHANGED <<localStream, remoteStream, peerConnection, dataChannel,
                   isCallActive, callTimer, liveTracks, liveTimers, made,
                   sc, ho, timeouts, emitted>>

\* mutant: only a payload that was decrypted is dispatched
HandleDecryptedSignaling(t, isVideo) ==
    /\ t \in Incoming
    /\ LET data == DecryptSignalingData(encryptionKey, t)
           how == HowDecrypted(t)
           type == IF Decrypted(t) THEN DataType(data) ELSE Undefined
       IN CASE type = "offer" -> HandleOfferBegin(how, isVideo)
            [] type = "answer" -> HandleAnswer(how)
            [] type = "ice-candidate" -> HandleIceCandidate(how)
            [] OTHER -> /\ nlast' = NEvent("signaling", how, FALSE, "none")
                        /\ UNCHANGED <<localStream, remoteStream,
                                       peerConnection, dataChannel,
                                       isCallActive, callTimer, pcs,
                                       liveTracks, liveTimers, made, sc, ho,
                                       timeouts, emitted>>
    /\ UNCHANGED cvars

(* VoiceManager.handleEncryptedSignaling: decrypt, then switch on          *)
(* data.type                                                               *)
HandleEncryptedSignaling(t, isVideo) ==
    /\ t \in Incoming
    /\ LET data == DecryptSignalingData(encryptionKey, t)
           how == HowDecrypted(t)
           type == DataType(data)
       IN CASE type = "offer" -> HandleOfferBegin(how, isVideo)
            [] type = "answer" -> HandleAnswer(how)
            [] type = "ice-candidate" -> HandleIceCandidate(how)
            [] OTHER -> /\ nlast' = NEvent("signaling", how, FALSE, "none")
                        /\ UNCHANGED <<localStream, remoteStream,
                                       peerConnection, dataChannel,
                                       isCallActive, callTimer, pcs,
                                       liveTracks, liveTimers, made, sc, ho,
                                       timeouts, emitted>>
    /\ UNCHANGED cvars

(* -------------------------------------------------------- handleOffer *)
(* handleOffer throws: the catch of handleEncryptedSignaling logs it *)
HandleOfferCatch(at) ==
    /\ ho' = NoFlow
    /\ nlast' = NEvent("handleOffer", at, TRUE, "none")

(* the stream getUserMedia resolves with under `video: data.isVideo ?      *)
(* {...} : false`                                                          *)
Acquired(isVideo) == IF isVideo THEN "audio+video" ELSE "audio"

\* mutant: the answerer always asks for audio only
HandleOfferMediaAudioOnly(ok) ==
    /\ ho.pc = "media"
    /\ IF ~ok
       THEN /\ HandleOfferCatch("media")
            /\ UNCHANGED <<localStream, liveTracks, pcs>>
       ELSE /\ localStream' = ho.id
            /\ liveTracks' = liveTracks \cup {ho.id}
            /\ IF peerConnection = 0
               THEN /\ HandleOfferCatch("addTrack")
                    /\ UNCHANGED pcs
               ELSE /\ pcs' = [pcs EXCEPT ![peerConnection].handlers = TRUE,
                                          ![peerConnection].ws = SignalingWs]
                    /\ ho' = [ho EXCEPT !.pc = "remote",
                                        !.target = peerConnection]
                    /\ nlast' = NEvent("handleOffer", Acquired(FALSE),
                                       FALSE, "none")
    /\ UNCHANGED <<remoteStream, peerConnection, dataChannel, isCallActive,
                   callTimer, liveTimers, made, sc, timeouts, emitted>>
    /\ UNCHANGED cvars

(* getUserMedia settles; on success the tracks are added to the peer       *)
(* connection the field holds now, ontrack, ondatachannel and              *)
(* onicecandidate are set on it (no onconnectionstatechange), and          *)
(* setRemoteDescription(data.offer) is awaited                             *)
HandleOfferMedia(ok) ==
    /\ ho.pc = "media"
    /\ IF ~ok
       THEN /\ HandleOfferCatch("media")
            /\ UNCHANGED <<localStream, liveTracks, pcs>>
       ELSE /\ localStream' = ho.id
            /\ liveTracks' = liveTracks \cup {ho.id}
            /\ IF peerConnection = 0
               THEN /\ HandleOfferCatch("addTrack")
                    /\ UNCHANGED pcs
               ELSE /\ pcs' = [pcs EXCEPT ![peerConnection].handlers = TRUE,
                                          ![peerConnection].ws = SignalingWs]
                    /\ ho' = [ho EXCEPT !.pc = "remote",
                                        !.target = peerConnection]
                    /\ nlast' = NEvent("handleOffer", Acquired(ho.video),
                                       FALSE, "none")
    /\ UNCHANGED <<remoteStream, peerConnection, dataChannel, isCallActive,
                   callTimer, liveTimers, made, sc, timeouts, emitted>>
    /\ UNCHANGED cvars

(* setRemoteDescription settles; then `await this.peerConnection           *)
(* .createAnswer()`                                                        *)
HandleOfferRemote ==
    /\ ho.pc = "remote"
    /\ IF Closed(ho.target)
       THEN /\ HandleOfferCatch("remote")
            /\ UNCHANGED pcs
       ELSE /\ pcs' = [pcs EXCEPT ![ho.target].remote = "offer"]
            /\ IF peerConnection = 0
               THEN HandleOfferCatch("createAnswer")
               ELSE /\ ho' = [ho EXCEPT !.pc = "answer",
                                        !.target = peerConnection]
                    /\ nlast' = [NEvent("handleOffer", "resumed", FALSE, "none")
                                   EXCEPT !.pc = ho.target]
    /\ UNCHANGED <<localStream, remoteStream, peerConnection, dataChannel,
                   isCallActive, callTimer, liveTracks, liveTimers, made,
                   sc, timeouts, emitted>>
    /\ UNCHANGED cvars

(* createAnswer settles; then `await this.peerConnection                   *)
(* .setLocalDescription(answer)`                                           *)
HandleOfferAnswer ==
    /\ ho.pc = "answer"
    /\ IF Closed(ho.target) \/ peerConnection = 0
       THEN HandleOfferCatch("answer")
       ELSE /\ ho' = [ho EXCEPT !.pc = "local", !.target = peerConnection]
            /\ nlast' = NEvent("handleOffer", "resumed", FALSE, "none")
    /\ UNCHANGED <<localStream, remoteStream, peerConnection, dataChannel,
                   isCallActive, callTimer, pcs, liveTracks, liveTimers,
                   made, sc, timeouts, emitted>>
    /\ UNCHANGED cvars

(* setLocalDescription settles; then `await this.encryptSignalingData` *)
HandleOfferLocal ==
    /\ ho.pc = "local"
    /\ IF Closed(ho.target)
       THEN /\ HandleOfferCatch("local")
            /\ UNCHANGED pcs
       ELSE /\ pcs' = [pcs EXCEPT ![ho.target].local = "answer"]
            /\ ho' = [ho EXCEPT !.pc = "encrypt",
                                !.out = EncryptSignalingData(
                                           encryptionKey, "answer", NoNonce,
                                           FALSE)]
            /\ nlast' = NEvent("handleOffer", "resumed", FALSE, "none")
    /\ UNCHANGED <<localStream, remoteStream, peerConnection, dataChannel,
                   isCallActive, callTimer, liveTracks, liveTimers, made,
                   sc, timeouts, emitted>>
    /\ UNCHANGED cvars

(* the encrypted answer is sent when ws is open; isCallActive = true;      *)
(* startCallTimer()                                                        *)
HandleOfferFinish(open) ==
    /\ ho.pc = "encrypt"
    /\ Emit(SignalingWs, open, ho.out)
    /\ isCallActive' = TRUE
    /\ StartCallTimer(ho.id)
    /\ ho' = NoFlow
    /\ nlast' = NEvent("handleOffer", Finished(open), FALSE, "none")
    /\ UNCHANGED <<localStream, remoteStream, peerConnection, dataChannel,
                   pcs, liveTracks, made, sc, timeouts>>
    /\ UNCHANGED cvars

States == {"connected", "disconnected", "failed"}

(* fewer than n calls were begun: the bound of a specification on the      *)
(* startCall and handleOffer flows of one behaviour                        *)
Budget(n) == made.start + made.offer < n

(* the payload will be dispatched to handleOffer *)
BeginsOffer(t) == DataType(DecryptSignalingData(encryptionKey, t)) = "offer"

NegotiatorNext ==
    \/ InitializeEncryption /\ UNCHANGED <<rvars, nvars, ovars, avars>>
    \/ Budget(MaxFlows) /\ StartCallBegin /\ UNCHANGED <<rvars, ovars, avars>>
    \/ \E ok \in BOOLEAN : StartCallMedia(ok) /\ UNCHANGED <<rvars, ovars, avars>>
    \/ StartCallOffer /\ UNCHANGED <<rvars, ovars, avars>>
    \/ StartCallLocal /\ UNCHANGED <<rvars, ovars, avars>>
    \/ \E open \in BOOLEAN : StartCallFinish(open) /\ UNCHANGED <<rvars, ovars, avars>>
    \/ \E t \in Incoming, isVideo \in BOOLEAN :
          /\ isVideo => t \in Offers
          /\ BeginsOffer(t) => Budget(MaxFlows)
          /\ HandleEncryptedSignaling(t, isVideo)
          /\ UNCHANGED <<rvars, ovars, avars>>
    \/ \E ok \in BOOLEAN : HandleOfferMedia(ok) /\ UNCHANGED <<rvars, ovars, avars>>
    \/ HandleOfferRemote /\ UNCHANGED <<rvars, ovars, avars>>
    \/ HandleOfferAnswer /\ UNCHANGED <<rvars, ovars, avars>>
    \/ HandleOfferLocal /\ UNCHANGED <<rvars, ovars, avars>>
    \/ \E open \in BOOLEAN : HandleOfferFinish(open) /\ UNCHANGED <<rvars, ovars, avars>>
    \/ \E p \in DOMAIN pcs, st \in States :
          ConnectionStateChange(p, st) /\ UNCHANGED <<rvars, ovars, avars>>
    \/ \E p \in DOMAIN pcs : OnTrack(p) /\ UNCHANGED <<rvars, ovars, avars>>
    \/ \E p \in DOMAIN pcs, open \in BOOLEAN :
          OnIceCandidate(p, open) /\ UNCHANGED <<rvars, ovars, avars>>
    \/ UserEndCall /\ UNCHANGED <<rvars, ovars, avars>>
    \/ ErrorTimeout /\ UNCHANGED <<rvars, ovars, avars>>

(* call set-ups one after another and at once: the calls the user starts, *)
(* unencrypted offers that arrive, every await of both flows, the user's   *)
(* end call and the delayed teardown, with the relay transport open        *)
SessionNext ==
    \/ Budget(MaxSessions) /\ StartCallBegin /\ UNCHANGED <<rvars, ovars, avars>>
    \/ \E ok \in BOOLEAN : StartCallMedia(ok) /\ UNCHANGED <<rvars, ovars, avars>>
    \/ StartCallOffer /\ UNCHANGED <<rvars, ovars, avars>>
    \/ StartCallLocal /\ UNCHANGED <<rvars, ovars, avars>>
    \/ StartCallFinish(TRUE) /\ UNCHANGED <<rvars, ovars, avars>>
    \/ /\ Budget(MaxSessions)
       /\ HandleEncryptedSignaling(Value("offer"), FALSE)
       /\ UNCHANGED <<rvars, ovars, avars>>
    \/ \E ok \in BOOLEAN : HandleOfferMedia(ok) /\ UNCHANGED <<rvars, ovars, avars>>
    \/ HandleOfferRemote /\ UNCHANGED <<rvars, ovars, avars>>
    \/ HandleOfferAnswer /\ UNCHANGED <<rvars, ovars, avars>>
    \/ HandleOfferLocal /\ UNCHANGED <<rvars, ovars, avars>>
    \/ HandleOfferFinish(TRUE) /\ UNCHANGED <<rvars, ovars, avars>>
    \/ UserEndCall /\ UNCHANGED <<rvars, ovars, avars>>
    \/ ErrorTimeout /\ UNCHANGED <<rvars, ovars, avars>>

(* ======================================================== SecureChatApp *)
(* The constructor has called connectWebSocket: the client holds a         *)
(* WebSocket that is still connecting.                                     *)
AppInit ==
    /\ wss = 1
    /\ currentGroupId = Null
    /\ inbox = <<>>
    /\ messagesContainer = {}

(* what the relay step has sent to the client's WebSocket arrives behind   *)
(* the frames that wait there; the application itself is not involved      *)
Onward ==
    /\ inbox' = inbox \o out'[wss]
    /\ Len(inbox') <= MaxInbox
    /\ UNCHANGED <<wss, currentGroupId, messagesContainer>>

(* the other clients of the relay *)
Peers == Conns \ {wss}

PeerInputs ==
    {[Obj("join_group") EXCEPT !.groupId = g] : g \in RoomNames \cup DOMAIN groups}
    \cup {[Obj("chat_message") EXCEPT !.content = "X"]}

(* createGroup(): the message is sent when the socket is open, and the     *)
(* relay handles it                                                        *)
AppCreateGroup ==
    /\ readyState[wss] = OPEN
    /\ CreateGroup(wss, Obj("create_group"))
    /\ Onward

(* joinGroup() with a room id typed by the user *)
AppJoinGroup(groupId) ==
    /\ groupId # ""
    /\ readyState[wss] = OPEN
    /\ JoinGroup(wss, [Obj("join_group") EXCEPT !.groupId = groupId])
    /\ Onward

(* sendMessage(): the chat_message is sent when the socket is open; the    *)
(* message is not displayed here                                           *)
AppSendMessage ==
    /\ readyState[wss] = OPEN
    /\ ChatMessageCase(wss, [Obj("chat_message") EXCEPT !.content = "X"])
    /\ Onward

(* leaveGroup(), offered by the chat interface: the room is forgotten and  *)
(* the message list emptied; nothing is sent                               *)
AppLeaveGroup ==
    /\ currentGroupId # Null
    /\ currentGroupId' = Null
    /\ messagesContainer' = {}
    /\ UNCHANGED <<wss, inbox>>
    /\ UNCHANGED rvars

(* displayMessage(message): the element appended to the message list has   *)
(* the id 'msg-' + timestamp + '-' + sender                                *)
DisplayedMessage(message) ==
    [sender |-> message.sender, timestamp |-> message.timestamp]

(* handleWebSocketMessage(message) for the next frame of the socket *)
AppReceive ==
    /\ inbox # <<>>
    /\ LET message == Head(inbox)
       IN /\ currentGroupId' =
                IF message.type \in {"group_created", "joined_group"}
                THEN message.groupId ELSE currentGroupId
          /\ messagesContainer' =
                IF message.type = "chat_message"
                THEN messagesContainer \cup {DisplayedMessage(message)}
                ELSE messagesContainer
    /\ inbox' = Tail(inbox)
    /\ UNCHANGED wss
    /\ UNCHANGED rvars

(* wss.onclose followed 3000 ms later by connectWebSocket(): a new         *)
(* WebSocket replaces the closed one; the fields of the application stay   *)
AppReconnect ==
    /\ readyState[wss] = CLOSED
    /\ \E c \in Conns :
          /\ readyState[c] = CONNECTING
          /\ wss' = c
    /\ inbox' = <<>>
    /\ UNCHANGED <<currentGroupId, messagesContainer>>
    /\ UNCHANGED rvars

AppNext ==
    \/ \E c \in Conns : Connect(c) /\ Onward /\ UNCHANGED <<cvars, nvars, ovars>>
    \/ \E c \in Conns : TransportClosing(c) /\ Onward /\ UNCHANGED <<cvars, nvars, ovars>>
    \/ \E c \in Conns : OnClose(c) /\ Onward /\ UNCHANGED <<cvars, nvars, ovars>>
    \/ \E c \in Peers, d \in PeerInputs :
          JoinGroup(c, d) /\ Onward /\ UNCHANGED <<cvars, nvars, ovars>>
    \/ \E c \in Peers, d \in PeerInputs :
          ChatMessageCase(c, d) /\ Onward /\ UNCHANGED <<cvars, nvars, ovars>>
    \/ AppCreateGroup /\ UNCHANGED <<cvars, nvars, ovars>>
    \/ \E g \in RoomNames : AppJoinGroup(g) /\ UNCHANGED <<cvars, nvars, ovars>>
    \/ AppSendMessage /\ UNCHANGED <<cvars, nvars, ovars>>
    \/ AppLeaveGroup /\ UNCHANGED <<cvars, nvars, ovars>>
    \/ AppReceive /\ UNCHANGED <<cvars, nvars, ovars>>
    \/ AppReconnect /\ UNCHANGED <<cvars, nvars, ovars>>

(* ======================================================= specifications *)
Init == RelayInit /\ CryptoInit /\ NegotiatorInit /\ OrderInit /\ AppInit

Next ==
    \/ \E c \in Conns : Connect(c) /\ UNCHANGED <<cvars, nvars, ovars, avars>>
    \/ \E c \in Conns : TransportClosing(c) /\ UNCHANGED <<cvars, nvars, ovars, avars>>
    \/ \E c \in Conns : OnClose(c) /\ UNCHANGED <<cvars, nvars, ovars, avars>>
    \/ \E c \in Conns, d \in Inputs : InvalidJSON(c, d) /\ UNCHANGED <<cvars, nvars, ovars, avars>>
    \/ \E c \in Conns, d \in Inputs : UnhandledRejection(c, d) /\ UNCHANGED <<cvars, nvars, ovars, avars>>
    \/ \E c \in Conns, d \in Inputs : CreateGroup(c, d) /\ UNCHANGED <<cvars, nvars, ovars, avars>>
    \/ \E c \in Conns, d \in Inputs : JoinGroup(c, d) /\ UNCHANGED <<cvars, nvars, ovars, avars>>
    \/ \E c \in Conns, d \in Inputs : LeaveGroup(c, d) /\ UNCHANGED <<cvars, nvars, ovars, avars>>
    \/ \E c \in Conns, d \in Inputs : ChatMessageCase(c, d) /\ UNCHANGED <<cvars, nvars, ovars, avars>>
    \/ \E c \in Conns, d \in Inputs : StartCall(c, d) /\ UNCHANGED <<cvars, nvars, ovars, avars>>
    \/ \E c \in Conns, d \in Inputs : EncryptedSignalingCase(c, d) /\ UNCHANGED <<cvars, nvars, ovars, avars>>
    \/ \E c \in Conns, d \in Inputs : UnknownType(c, d) /\ UNCHANGED <<cvars, nvars, ovars, avars>>

(* the relay *)
Spec == Init /\ [][Next]_vars

(* one client's symmetric channel *)
CryptoSpec == Init /\ [][CryptoNext]_vars

NegotiatorSpec == Init /\ [][NegotiatorNext]_vars

(* the Negotiator over several call set-ups *)
SessionSpec == Init /\ [][SessionNext]_vars

(* one client application and the relay *)
AppSpec == Init /\ [][AppNext]_vars

(* the same, where a frame the relay has sent to the client is handled *)
AppLiveSpec ==
    AppSpec /\ WF_vars(AppReceive /\ UNCHANGED <<cvars, nvars, ovars>>)

(* the relay behind ordered streams *)
OrderSpec == Init /\ [][OrderNext]_vars

TypeOK ==
    /\ DOMAIN groups \subseteq UUIDs \cup RoomNames \cup {Undefined}
    /\ \A k \in DOMAIN groups : groups[k] \subseteq Conns
    /\ \A c \in Conns : userGroup[c] \in DOMAIN groups \cup {Null}
    /\ issued \subseteq UUIDs
    /\ process \in {"running", "exited"}

(* ================================================================ claims *)
Relay == <<groups, userGroup, userId, readyState, issued, process>>

Rooms(c) == {g \in DOMAIN groups : c \in groups[g]}

OnlyTo(c, msg) == [NoOut EXCEPT ![c] = <<msg>>]

IsError(o, c) == Len(o[c]) = 1 /\ o[c][1].type = "error"

(* C1: a chat_message or encrypted_signaling sent by a connection whose    *)
(* current room is R is delivered to every other connection joined to R    *)
(* (with an open transport) and to no connection that is a member of any   *)
(* other room.                                                             *)
C1_RoomIsolation ==
    (last.op \in {"chat_message", "encrypted_signaling"} /\ last.group # Null)
    => \A x \in Conns \ {last.conn} :
          /\ (x \in groups[last.group] /\ readyState[x] = OPEN)
                => (Len(out[x]) = 1 /\ out[x][1].type = last.op)
          /\ (Rooms(x) \ {last.group} # {}) => out[x] = <<>>

(* C2: when A sends chat_message with content X from its room, every other *)
(* open member B of that room is handed exactly one chat_message whose     *)
(* content is X and whose sender is the identifier assigned to A when it   *)
(* connected; A is handed nothing; the identifier of a connection never    *)
(* changes after it was assigned.                                          *)
C2_Delivered ==
    (last.op = "chat_message" /\ last.group # Null)
    => /\ \A b \in groups[last.group] \ {last.conn} :
            readyState[b] = OPEN
            => /\ Len(out[b]) = 1
               /\ out[b][1].type = "chat_message"
               /\ out[b][1].content = last.msg.content
               /\ out[b][1].sender = userId[last.conn]
       /\ out[last.conn] = <<>>

C3_AtMostOneRoom == \A c \in Conns : Cardinality(Rooms(c)) <= 1

(* C4: a connection whose transport has closed is in the member set of no  *)
(* room and is handed no payload.                                          *)
C4_ClosedIsGone ==
    \A c \in Conns :
        readyState[c] = CLOSED => (Rooms(c) = {} /\ out[c] = <<>>)

(* C5: leave_group in a room removes the connection from that room, clears *)
(* its current room and replies left_group with that room's id; outside a  *)
(* room it sends nothing and changes no relay state.                       *)
C5_LeaveIdempotent ==
    [][last'.op = "leave_group" =>
        LET c == last'.conn
            g == last'.group
        IN /\ g = userGroup[c]
           /\ IF g # Null
              THEN /\ groups' = [groups EXCEPT ![g] = @ \ {c}]
                   /\ userGroup' = [userGroup EXCEPT ![c] = Null]
                   /\ out' = OnlyTo(c, LeftGroup(g))
                   /\ UNCHANGED <<userId, readyState, issued, process>>
              ELSE /\ out' = NoOut
                   /\ UNCHANGED Relay]_vars

C5_Witness ==
    /\ last.op = "leave_group"
    /\ last.group = Null
    /\ out = NoOut
    /\ \E g \in DOMAIN groups : groups[g] = {}

(* C6: a message that is not JSON, or whose type is not recognized, is     *)
(* answered with exactly one error to the sender and nothing to anyone     *)
(* else, changes no membership, and leaves the sender open for further     *)
(* requests.                                                               *)
C6_ProtocolError ==
    [][last'.op \in {"invalid_json", "unknown_type"} =>
        LET c == last'.conn
        IN /\ IsError(out', c)
           /\ \A x \in Conns \ {c} : out'[x] = <<>>
           /\ UNCHANGED <<groups, userGroup>>
           /\ readyState'[c] = OPEN
           /\ process' = "running"]_vars

C6_Witness ==
    /\ last.op = "unknown_type"
    /\ last.msg.type = "bogus"
    /\ last.group # Null
    /\ groups[last.group] \ {last.conn} # {}
    /\ IsError(out, last.conn)

(* C7: every inbound message is handled to completion: the handler never   *)
(* ends in an uncaught exception and the relay process keeps running.      *)
C7_NeverFails == last.op # "unhandled_rejection" /\ process = "running"

(* C8: chat_message, encrypted_signaling and start_call from a connection  *)
(* that is in no room are each answered with one error to the sender,      *)
(* reach no one else and change no relay state.                            *)
C8_StateError ==
    [][(/\ last'.op \in {"chat_message", "encrypted_signaling", "start_call"}
        /\ last'.group = Null)
       => /\ IsError(out', last'.conn)
          /\ \A x \in Conns \ {last'.conn} : out'[x] = <<>>
          /\ UNCHANGED Relay]_vars

(* C9: start_call with callType T from a connection in a room is answered  *)
(* with call_allowed carrying T to the sender only and changes no          *)
(* membership; from a connection in no room it is answered with an error   *)
(* and no call_allowed.                                                    *)
C9_StartCall ==
    [][last'.op = "start_call" =>
        LET c == last'.conn
        IN /\ UNCHANGED Relay
           /\ IF userGroup[c] # Null
              THEN out' = OnlyTo(c, CallAllowed(last'.msg.callType))
              ELSE /\ IsError(out', c)
                   /\ \A x \in Conns \ {c} : out'[x] = <<>>]_vars

C9_Witness ==
    /\ last.op = "start_call"
    /\ last.group # Null
    /\ groups[last.group] \ {last.conn} # {}
    /\ out[last.conn] = <<CallAllowed("voice")>>

(* C10: create_group registers a room under an identifier that was not a   *)
(* key before, with the requester as its only member and as the            *)
(* requester's current room, replies group_created with that identifier,   *)
(* and leaves every existing room's member set as it was.                  *)
C10_CreateGroup ==
    [][last'.op = "create_group" =>
        LET c == last'.conn
            id == userGroup'[c]
        IN /\ id \notin DOMAIN groups
           /\ DOMAIN groups' = DOMAIN groups \cup {id}
           /\ groups'[id] = {c}
           /\ \A g \in DOMAIN groups : groups'[g] = groups[g]
           /\ out' = OnlyTo(c, GroupCreated(id))
           /\ \A x \in Conns \ {c} : userGroup'[x] = userGroup[x]]_vars

C10_Witness ==
    /\ last.op = "create_group"
    /\ last.group # Null
    /\ groups[last.group] # {}
    /\ userGroup[last.conn] # last.group
    /\ groups[userGroup[last.conn]] = {last.conn}
    /\ out[last.conn] = <<GroupCreated(userGroup[last.conn])>>

(* C11: join_group(G) always succeeds: a room G that does not exist is     *)
(* registered empty and the connection added, an existing room keeps its   *)
(* members and gains the connection; other rooms are untouched; the        *)
(* sender is answered joined_group carrying G and G becomes its current    *)
(* room, the one its later chat is broadcast to.                           *)
C11_Routed ==
    (last.op = "chat_message" /\ last.group # Null)
    => /\ last.group = userGroup[last.conn]
       /\ \A x \in Conns : out[x] # <<>> => x \in groups[last.group]

C11_JoinStep ==
    last'.op = "join_group" =>
        LET c == last'.conn
            G == last'.msg.groupId
            before == IF G \in DOMAIN groups THEN groups[G] ELSE {}
        IN /\ DOMAIN groups' = DOMAIN groups \cup {G}
           /\ groups'[G] = before \cup {c}
           /\ \A g \in DOMAIN groups \ {G} : groups'[g] = groups[g]
           /\ userGroup' = [userGroup EXCEPT ![c] = G]
           /\ out' = OnlyTo(c, JoinedGroup(G))

C11_JoinGroup == [][C11_JoinStep]_vars /\ []C11_Routed

C11_Witness ==
    /\ last.op = "join_group"
    /\ last.msg.groupId = userGroup[last.conn]
    /\ groups[userGroup[last.conn]] \ {last.conn} # {}
    /\ out[last.conn] = <<JoinedGroup(last.msg.groupId)>>

(* C12: a broadcast hands the payload only to members whose transport is   *)
(* open at that moment; a member that is not open gets nothing then and    *)
(* nothing later (it never becomes open again and nothing is queued), and  *)
(* no recipient gets a broadcast payload twice.                            *)
C12_OpenOnly ==
    \A x \in Conns :
        /\ readyState[x] # OPEN => out[x] = <<>>
        /\ last.op \in {"chat_message", "encrypted_signaling"}
              => Len(out[x]) <= 1

C12_NeverReopens ==
    \A x \in Conns : readyState[x] \in {CLOSING, CLOSED} => readyState'[x] # OPEN

C12_BestEffort == []C12_OpenOnly /\ [][C12_NeverReopens]_vars

C12_Witness ==
    /\ last.op = "chat_message"
    /\ last.group # Null
    /\ \E x \in groups[last.group] \ {last.conn} :
          readyState[x] = CLOSING /\ out[x] = <<>>

(* C13: a room is registered in the room table only while its member set   *)
(* is non-empty.                                                           *)
C13_NoEmptyRoom == \A g \in DOMAIN groups : groups[g] # {}

(* C14: whatever the client hands to the relay as chat content, and        *)
(* whatever encryptSignalingData returns for emission, is ciphertext,      *)
(* never the plaintext value.                                              *)
C14_OnlyCiphertext ==
    /\ sent.kind # "value"
    /\ enc.ch = "signaling" => enc.out.kind # "value"

C16_CorruptionReported ==
    (dec.ch # "none" /\ dec.keyed /\ dec.in.kind = "b64" /\ dec.in.tag = "bad")
    => dec.out = DecryptionError

(* C17: two consecutive encrypt calls on the same input return different   *)
(* transport strings.                                                      *)
C17_NonceUnique ==
    (enc.ch # "none" /\ prevEnc.ch = enc.ch /\ prevEnc.in = enc.in)
    => prevEnc.out # enc.out

(* ---------------------------------------------- Session Negotiator *)
(* the Negotiator holds nothing: no peer connection, no data channel, no   *)
(* media stream, no active call, no duration timer                         *)
Idle ==
    /\ peerConnection = 0
    /\ dataChannel = 0
    /\ localStream = 0
    /\ remoteStream = 0
    /\ ~isCallActive
    /\ callTimer = 0

(* the event is a run of endCall: by the user, by the error timeout, or    *)
(* by handleCallDisconnection                                              *)
EndCallRan(e) ==
    e.op = "endCall" \/ e.dispatched = "handleCallDisconnection"

(* C18: an inbound encrypted_signaling payload whose decryption fails      *)
(* (wrong key, altered, or not a ciphertext at all) is dropped: it reaches *)
(* none of handleOffer, handleAnswer, handleIceCandidate and no peer       *)
(* connection is created or changed by it.                                 *)
C18_FailedDecryptionDropped ==
    [][(nlast'.op = "signaling" /\ nlast'.arg = "failed")
         => (nlast'.dispatched = "none" /\ pcs' = pcs)]_vars

(* C19: endCall is enabled in every Negotiator state; a run of it does not *)
(* throw and leaves the Negotiator idle, the peer connection it held       *)
(* closed, the tracks of the streams it held stopped and the timer it      *)
(* held cleared; a run of endCall right after a run of endCall changes     *)
(* nothing.                                                                *)
C19_Teardown ==
    EndCallRan(nlast') =>
        /\ ~nlast'.threw
        /\ Idle'
        /\ liveTracks' \cap {localStream, remoteStream} = {}
        /\ callTimer \notin liveTimers'
        /\ peerConnection # 0 => pcs'[peerConnection].state = "closed"

C19_Idempotent ==
    (EndCallRan(nlast) /\ EndCallRan(nlast')) =>
        UNCHANGED <<localStream, remoteStream, peerConnection, dataChannel,
                    isCallActive, callTimer, pcs, liveTracks, liveTimers>>

C20_TeardownOnLoss ==
    [][(/\ nlast'.op = "connectionstatechange"
        /\ nlast'.arg \in {"disconnected", "failed"}
        /\ nlast'.pc = peerConnection)
         => Idle']_vars

(* C21: a startCall (begun on call_allowed) that reaches its send while    *)
(* the client's relay transport is open has emitted its offer to the       *)
(* relay as encrypted_signaling.                                           *)
C21_OfferEmitted ==
    [][(nlast'.op = "startCall" /\ nlast'.arg = Finished(TRUE))
         => sc.out \in emitted']_vars

(* C22: a chat message that another client sealed under the key it        *)
(* generated at its own startup, and that the relay delivered unaltered,   *)
(* is decrypted by this client to the sender's plaintext.                  *)
C22_PeerMessageRead ==
    (/\ dec.ch = "chat"
     /\ dec.in.kind = "b64"
     /\ dec.in.key = ForeignKey
     /\ dec.in.tag = "ok")
        => dec.out = Value(Decode(dec.in.bytes))

(* C23: when the peer connection the Negotiator holds becomes connected,   *)
(* in either role, onCallConnected runs and the call-duration timer is     *)
(* started by that event: none was set before it, one is set after it.     *)
C23_TimerOnConnected ==
    [][(/\ nlast'.op = "connectionstatechange"
        /\ nlast'.arg = "connected"
        /\ nlast'.pc = peerConnection)
         => (/\ nlast'.dispatched = "onCallConnected"
             /\ callTimer = 0
             /\ callTimer' # 0)]_vars

(* a decrypted payload of the given type was handled by this step *)
Handled(e, handler) ==
    e.op = "signaling" /\ e.arg = "decrypted" /\ e.dispatched = handler

(* C24: a decrypted answer changes a peer connection only by becoming the  *)
(* remote description of the held peer connection, and only when that      *)
(* peer connection was created by startCall, has its local offer set and   *)
(* has no remote description yet; without a peer connection the answer is  *)
(* dropped and nothing throws.                                             *)
C24_AnswerStep ==
    Handled(nlast', "handleAnswer") =>
        /\ peerConnection = 0 => (pcs' = pcs /\ ~nlast'.threw)
        /\ pcs' # pcs =>
              /\ peerConnection # 0
              /\ pcs[peerConnection].role = "offerer"
              /\ pcs[peerConnection].local = "offer"
              /\ pcs[peerConnection].remote = "none"
              /\ pcs' = [pcs EXCEPT ![peerConnection].remote = "answer"]

C24_AnswerOnlyForOffer == [][C24_AnswerStep]_vars

(* a decrypted answer was applied to the offerer's peer connection *)
C24_Witness ==
    /\ Handled(nlast, "handleAnswer")
    /\ nlast.pc # 0
    /\ pcs[nlast.pc].role = "offerer"
    /\ pcs[nlast.pc].remote = "answer"

(* C25: a decrypted ICE candidate is applied to the held peer connection   *)
(* exactly when one exists as it is handled, and handling it never         *)
(* throws.                                                                 *)
C25_CandidateApplied ==
    [][Handled(nlast', "handleIceCandidate")
         => (/\ (peerConnection # 0) <=> (nlast'.pc # 0)
             /\ ~nlast'.threw)]_vars

(* C26: an idle Negotiator that handles a payload decrypting to an offer   *)
(* constructs a peer connection of its own; the media it acquires are of   *)
(* the kind the offer declared; the offer becomes the remote description;  *)
(* and when the flow reaches its end on the peer connection it created,    *)
(* with the transport open, the answer sealed under the client's key has   *)
(* been emitted, the peer connection holds offer and answer, and           *)
(* isCallActive is true.                                                   *)
C26_Begin ==
    (Handled(nlast', "handleOffer") /\ peerConnection = 0) =>
        /\ peerConnection' \in DOMAIN pcs' \ DOMAIN pcs
        /\ pcs'[peerConnection'] = NewPc("answerer", FALSE, FALSE)
        /\ ho'.pc = "media"

C26_Media ==
    (nlast'.op = "handleOffer" /\ nlast'.arg \in {Acquired(v) : v \in BOOLEAN})
        => /\ nlast'.arg = Acquired(ho.video)
           /\ localStream' = ho.id
           /\ ho.id \in liveTracks'

C26_Remote ==
    (ho.pc = "remote" /\ ho'.pc = "answer")
        => pcs'[ho.target].remote = "offer"

C26_Finish ==
    (/\ nlast'.op = "handleOffer"
     /\ nlast'.arg = Finished(TRUE)
     /\ ho.how = "decrypted"
     /\ ho.target = ho.id
     /\ peerConnection = ho.target)
        => /\ ho.out = Cipher(CallKey, ho.out.iv, EncodeJSON("answer"))
           /\ ho.out \in emitted'
           /\ isCallActive'
           /\ pcs'[peerConnection'].role = "answerer"
           /\ pcs'[peerConnection'].remote = "offer"
           /\ pcs'[peerConnection'].local = "answer"

C27_MediaFailureAborts ==
    [][/\ (/\ nlast'.op \in {"startCall", "handleOffer"}
           /\ nlast'.arg = "media"
           /\ nlast'.threw)
          => (sc'.pc = "idle" /\ ho'.pc = "idle" /\ timeouts' = timeouts + 1)
       /\ (nlast'.op = "endCall" /\ nlast'.arg = "timeout") => Idle']_vars

(* ------------------------------------------------------------ relay *)
(* the handlers that may change room membership *)
Mutators == {"create_group", "join_group", "leave_group", "close"}

(* C29: a step of the relay that is not the create_group, join_group,      *)
(* leave_group or close handler leaves every room's member set and every   *)
(* connection's room pointer unchanged; a step of one of these four        *)
(* changes the membership and the pointer of no connection but the one     *)
(* that issued it, and removes no room.                                    *)
C29_FrameStep ==
    /\ last'.op \notin Mutators =>
          (groups' = groups /\ userGroup' = userGroup)
    /\ last'.op \in Mutators =>
          /\ DOMAIN groups \subseteq DOMAIN groups'
          /\ \A m \in Conns \ {last'.conn} :
                /\ userGroup'[m] = userGroup[m]
                /\ \A k \in DOMAIN groups' :
                      (m \in groups'[k]) <=>
                          (k \in DOMAIN groups /\ m \in groups[k])

C29_Frame == [][C29_FrameStep]_vars

(* C28: the relayed frames a recipient gets from one sender arrive in the  *)
(* order in which that sender wrote the messages they relay.               *)
C28_SenderOrder ==
    \A r \in Conns : \A i, j \in DOMAIN delivered[r] :
        (i < j /\ delivered[r][i].from = delivered[r][j].from)
            => delivered[r][i].n < delivered[r][j].n

(* a recipient has got two relayed frames of the same sender *)
C28_Witness ==
    \E r \in Conns : \E i, j \in DOMAIN delivered[r] :
        /\ i < j
        /\ delivered[r][i].from = delivered[r][j].from
        /\ delivered[r][i].type # delivered[r][j].type

(* the payloads that carry one ICE candidate *)
CandidatePayload(o) ==
    \/ o = Value("ice-candidate")
    \/ o.kind = "b64" /\ o.bytes = EncodeJSON("ice-candidate")

(* C30: a locally discovered ICE candidate that becomes available while    *)
(* the client's relay transport is open has been emitted, in a message of  *)
(* its own, when its handler has run.                                      *)
C30_CandidateEmitted ==
    [][(nlast'.op = "icecandidate" /\ nlast'.arg = Finished(TRUE))
         => \E o \in emitted' : CandidatePayload(o)]_vars

(* C33: in every reachable Negotiator state an active call has a peer      *)
(* connection.                                                             *)
C33_ActiveHasConnection == isCallActive => peerConnection # 0

(* a suspended startCall or handleOffer resumes and ends with this step *)
FlowEnds ==
    \/ sc.pc # "idle" /\ sc'.pc = "idle"
    \/ ho.pc # "idle" /\ ho'.pc = "idle"

(* C34: when endCall has run while a startCall or handleOffer was          *)
(* suspended at an await and the flow then resumes and ends, the           *)
(* Negotiator is idle: it holds no peer connection, no live local track    *)
(* and no running duration timer, and the flow has emitted nothing.        *)
C34_EndCallWins ==
    [][(EndCallRan(nlast) /\ FlowEnds /\ sc'.pc = "idle" /\ ho'.pc = "idle")
         => (/\ Idle'
             /\ liveTracks' = {}
             /\ liveTimers' = {}
             /\ emitted' = emitted)]_vars

(* C35: when the delayed teardown of a failed startCall fires while a      *)
(* startCall begun after the failure is under way, the new call keeps its  *)
(* peer connection, its data channel and its media.                        *)
C35_OnlyFailedAttempt ==
    [][(nlast'.op = "endCall" /\ nlast'.arg = "timeout" /\ sc.pc # "idle")
         => UNCHANGED <<peerConnection, dataChannel, localStream, pcs,
                        liveTracks>>]_vars

(* C36: every live call-duration interval is the one recorded in           *)
(* callTimer, so at most one is live, and none after endCall.              *)
C36_OneTimer == liveTimers \subseteq {callTimer}

(* C38: a connection with an open transport whose current-room pointer is  *)
(* set is a member of that room, and the room is registered in the room    *)
(* table under that id; a message handled for a connection whose pointer   *)
(* is unset reaches no other connection.                                   *)
C38_PointerIsMember ==
    /\ \A c \in Conns :
          (readyState[c] = OPEN /\ userGroup[c] # Null)
             => (userGroup[c] \in DOMAIN groups /\ c \in groups[userGroup[c]])
    /\ last.group = Null => \A x \in Conns \ {last.conn} : out[x] = <<>>

\* a connection that left its last room, and is still listed in a room
\* it joined before, sends a chat message: the member of that room, whose
\* pointer is set, receives nothing
C38_Witness ==
    /\ last.op = "chat_message"
    /\ last.group = Null
    /\ \E x \in Conns \ {last.conn} :
          /\ readyState[x] = OPEN
          /\ userGroup[x] # Null
          /\ userGroup[x] \in DOMAIN groups
          /\ {x, last.conn} \subseteq groups[userGroup[x]]

(* C31: when the user leaves the current room in the client, the relay no  *)
(* longer lists the client's connection as a member of any room after the  *)
(* leave, so that nothing from the room reaches the client any more.       *)
C31_LeaveReachesRelay ==
    [][(currentGroupId # Null /\ currentGroupId' = Null)
         => \A k \in DOMAIN groups' : wss \notin groups'[k]]_vars

(* C32: a chat message the client has sent while the relay has it in a     *)
(* room is eventually shown in the client's own message list: an element   *)
(* with the sender id of the client's connection is appended when the      *)
(* relay's frame is handled.                                               *)
C32_OwnMessageDisplayed ==
    \A u \in UUIDs :
       (/\ last.op = "chat_message"
        /\ last.conn = wss
        /\ last.group # Null
        /\ userId[wss] = u)
       ~> (\E m \in messagesContainer : m.sender = u)

(* C37: whenever the client's currentGroupId is a room and its WebSocket   *)
(* is open, the relay has the client's current connection in the member    *)
(* set of that room.                                                       *)
C37_ClientRoomIsRelayRoom ==
    (currentGroupId # Null /\ readyState[wss] = OPEN)
       => (currentGroupId \in DOMAIN groups /\ wss \in groups[currentGroupId])
====
